---- MODULE Spec2Model ----
(***************************************************************************)
(* Model of src/row.rs of egui_ltreeview: the row layout (Row::draw_row),  *)
(* the drag overlay (Row::draw_row_dragged) and the drop classification    *)
(* (DropQuarter::new).                                                     *)
(*                                                                         *)
(* Lengths are f32 in the source.  The model uses integer lengths; every   *)
(* operation of the source on them (+, -, comparison) is exact on the      *)
(* integers, and the two halvings ((min + max) / 2.0, item_spacing.y *     *)
(* 0.5) are kept exact: the first by comparing doubled values, the second  *)
(* by drawing item_spacing.y from the even numbers.                        *)
(*                                                                         *)
(* Option<T> is a sequence of length at most one: <<>> is None, <<v>> is   *)
(* Some(v).  Pos2 and Vec2 are records [x, y].                             *)
(***************************************************************************)
EXTENDS Integers, Sequences, FiniteSets

VARIABLES
    pc,          \* the operation executed last, "start" before any
    range,       \* DropQuarter::new: argument range (Rangef)
    cursor_pos,  \* DropQuarter::new: argument cursor_pos
    quarter,     \* DropQuarter::new: the returned Option<DropQuarter>
    self,        \* the Row: depth, is_dir, is_open
    settings,    \* TreeViewSettings: row_layout
    add_icon,    \* whether the add_icon argument is Some
    ui,          \* the Ui the row is drawn into: cursor, spacing, sizes
    drawn,       \* Option of what the last draw_row call did and returned
    store,       \* the persisted Option<Vec2> under "Drag source"
    frame,       \* Option of the inputs draw_row_dragged read last
    drag_offset, \* draw_row_dragged: the local drag_offset
    translate,   \* draw_row_dragged: Option of the delta given to translate_layer
    returned,    \* draw_row_dragged: Option of the value returned
    cursor_icon, \* the cursor icon set on the context
    grab         \* history: Option of row top-left minus pointer at the last drag start

vars == <<pc, range, cursor_pos, quarter, self, settings, add_icon, ui, drawn,
          store, frame, drag_offset, translate, returned, cursor_icon, grab>>

dropVars == <<range, cursor_pos, quarter>>
rowVars == <<self, settings, add_icon, ui, drawn>>
dragVars == <<store, frame, drag_offset, translate, returned, cursor_icon, grab>>

\* Bounds of the model.
MaxMin == 2       \* range.min is drawn from 0..MaxMin
MaxHeight == 13   \* range.max - range.min is drawn from 1..MaxHeight
Margin == 7       \* cursor_pos is drawn from range.min - Margin .. range.max + Margin
MaxCoord == 1     \* positions are drawn from the points (a, MaxCoord - a), a \in 0..MaxCoord
MaxDepth == 2     \* self.depth is drawn from 0..MaxDepth
MaxIconWidth == 2 \* spacing().icon_width is drawn from 1..MaxIconWidth
MaxHalfSpacing == 1 \* spacing().item_spacing.y is drawn from 0, 2, .., 2 * MaxHalfSpacing
MaxWidth == 8     \* the available width is 0 or MaxWidth
MaxLabel == 2     \* width and height of what add_label draws are drawn from 1..MaxLabel

None == <<>>
Some(v) == <<v>>

Vec(a, b) == [x |-> a, y |-> b]
ZERO == Vec(0, 0)
VAdd(a, b) == Vec(a.x + b.x, a.y + b.y)
VSub(a, b) == Vec(a.x - b.x, a.y - b.y)
VNeg(a) == Vec(0 - a.x, 0 - a.y)

Max(a, b) == IF a >= b THEN a ELSE b

----------------------------------------------------------------------------
(* DropQuarter::new *)

DROP_LINE_HOVER_HEIGHT == 5

Rangef(lo, hi) == [min |-> lo, max |-> hi]

\* The range [0, 100] of the boundary examples.
ExampleRange == Rangef(0, 100)

Ranges ==
    {Rangef(lo, lo + h) : lo \in 0..MaxMin, h \in 1..MaxHeight} \cup {ExampleRange}

\* h2 = (range.min + range.max) / 2.0 is not an integer when min + max is odd;
\* y >= h2 is decided as 2 * y >= min + max and y < h2 as 2 * y < min + max.
DropQuarterNew_LateMiddle(r, y) ==
    LET h0 == r.min
        h1 == r.min + DROP_LINE_HOVER_HEIGHT
        twice_h2 == r.min + r.max
        h3 == r.max
        h4 == r.max
    IN  IF y >= h0 /\ y < h1 THEN Some("Top")
        ELSE IF y >= h1 /\ 2 * y < twice_h2 THEN Some("MiddleTop")
        ELSE IF 2 * y >= twice_h2 /\ y < h3 THEN Some("MiddleBottom")
        ELSE IF y >= h3 /\ y < h4 THEN Some("Bottom")
        ELSE None

DropQuarterNew_StrictBottom(r, y) ==
    LET h0 == r.min
        h1 == r.min + DROP_LINE_HOVER_HEIGHT
        twice_h2 == r.min + r.max
        h3 == r.max - DROP_LINE_HOVER_HEIGHT
        h4 == r.max
    IN  IF y >= h0 /\ y < h1 THEN Some("Top")
        ELSE IF y >= h1 /\ 2 * y < twice_h2 THEN Some("MiddleTop")
        ELSE IF 2 * y >= twice_h2 /\ y < h3 THEN Some("MiddleBottom")
        ELSE IF y > h3 /\ y < h4 THEN Some("Bottom")
        ELSE None

DropQuarterNew_InclusiveTop(r, y) ==
    LET h0 == r.min
        h1 == r.min + DROP_LINE_HOVER_HEIGHT
        twice_h2 == r.min + r.max
        h3 == r.max - DROP_LINE_HOVER_HEIGHT
        h4 == r.max
    IN  IF y >= h0 /\ y <= h1 THEN Some("Top")
        ELSE IF y >= h1 /\ 2 * y < twice_h2 THEN Some("MiddleTop")
        ELSE IF 2 * y >= twice_h2 /\ y < h3 THEN Some("MiddleBottom")
        ELSE IF y >= h3 /\ y < h4 THEN Some("Bottom")
        ELSE None

DropQuarterNew(r, y) ==
    LET h0 == r.min
        h1 == r.min + DROP_LINE_HOVER_HEIGHT
        twice_h2 == r.min + r.max
        h3 == r.max - DROP_LINE_HOVER_HEIGHT
        h4 == r.max
    IN  IF y >= h0 /\ y < h1 THEN Some("Top")
        ELSE IF y >= h1 /\ 2 * y < twice_h2 THEN Some("MiddleTop")
        ELSE IF 2 * y >= twice_h2 /\ y < h3 THEN Some("MiddleBottom")
        ELSE IF y >= h3 /\ y < h4 THEN Some("Bottom")
        ELSE None

----------------------------------------------------------------------------
(* Row::draw_row *)

RowLayout == {"Compact", "CompactAlignedLables", "AlignedIcons", "AlignedIconsAndLabels"}

Points == {Vec(a, MaxCoord - a) : a \in 0..MaxCoord}

Rows == [depth : 0..MaxDepth, is_dir : BOOLEAN, is_open : BOOLEAN]

Uis ==
    [min : Points,
     width : {0, MaxWidth},
     icon_width : 1..MaxIconWidth,
     item_spacing_y : {2 * k : k \in 0..MaxHalfSpacing},
     label_width : 1..MaxLabel,
     label_height : 1..MaxLabel]

LayoutFlags(rc, dc, ri, di) ==
    [reserve_closer |-> rc, draw_closer |-> dc, reserve_icon |-> ri, draw_icon |-> di]

Flags_IconBesideCloser(row_layout, is_dir, icon_is_some) ==
    CASE row_layout = "Compact" -> LayoutFlags(is_dir, is_dir, FALSE, FALSE)
      [] row_layout = "CompactAlignedLables" ->
            LayoutFlags(is_dir, is_dir, ~is_dir, icon_is_some)
      [] row_layout = "AlignedIcons" ->
            LayoutFlags(TRUE, is_dir, icon_is_some, icon_is_some)
      [] row_layout = "AlignedIconsAndLabels" ->
            LayoutFlags(TRUE, is_dir, TRUE, icon_is_some)

\* The match on settings.row_layout.
Flags(row_layout, is_dir, icon_is_some) ==
    CASE row_layout = "Compact" -> LayoutFlags(is_dir, is_dir, FALSE, FALSE)
      [] row_layout = "CompactAlignedLables" ->
            LayoutFlags(is_dir, is_dir, ~is_dir, ~is_dir /\ icon_is_some)
      [] row_layout = "AlignedIcons" ->
            LayoutFlags(TRUE, is_dir, icon_is_some, icon_is_some)
      [] row_layout = "AlignedIconsAndLabels" ->
            LayoutFlags(TRUE, is_dir, TRUE, icon_is_some)

\* ui.add_space(amount) in the horizontal layout: the cursor moves right.
AddSpace(cursor, amount) == Vec(cursor.x + amount, cursor.y)

SlotPositions_LabelBeforeIcon(u, depth, f) ==
    LET c0 == AddSpace(u.min, depth)
        c1 == IF f.reserve_closer THEN AddSpace(c0, u.icon_width) ELSE c0
        c2 == IF f.reserve_icon THEN AddSpace(c1, u.icon_width) ELSE c1
    IN  [closer_pos |-> c0, icon_pos |-> c1, label_pos |-> c1, cursor |-> c2]

\* The cursor positions recorded before the label is drawn.
SlotPositions(u, depth, f) ==
    LET c0 == AddSpace(u.min, depth)
        c1 == IF f.reserve_closer THEN AddSpace(c0, u.icon_width) ELSE c0
        c2 == IF f.reserve_icon THEN AddSpace(c1, u.icon_width) ELSE c1
    IN  [closer_pos |-> c0, icon_pos |-> c1, label_pos |-> c2, cursor |-> c2]

Calls_CloserFirst(f, icon_is_some) ==
    (IF f.draw_closer THEN <<"paint_default_icon">> ELSE <<>>)
    \o <<"add_label">>
    \o (IF f.draw_icon /\ icon_is_some THEN <<"add_icon">> ELSE <<>>)

\* What the closure given to ui.horizontal draws, in order: the label callback,
\* the closer, the icon callback (add_icon.as_mut().map calls it only if Some).
Calls(f, icon_is_some) ==
    <<"add_label">>
    \o (IF f.draw_closer THEN <<"paint_default_icon">> ELSE <<>>)
    \o (IF f.draw_icon /\ icon_is_some THEN <<"add_icon">> ELSE <<>>)

LabelRectMin_IconFirst(f, pos) ==
    IF f.draw_icon THEN pos.icon_pos
    ELSE IF f.draw_closer THEN pos.closer_pos
    ELSE pos.label_pos

LabelRectMin(f, pos) ==
    IF f.draw_closer THEN pos.closer_pos
    ELSE IF f.draw_icon THEN pos.icon_pos
    ELSE pos.label_pos

Rect(lo, hi) == [min |-> lo, max |-> hi]

\* Rect::expand2
Expand2(rect, amnt) == Rect(VSub(rect.min, amnt), VAdd(rect.max, amnt))

\* The rectangle of the horizontal row: it starts at the Ui's cursor, is as high
\* as what add_label drew, and add_space(available_width) extends it to the
\* right edge of the Ui, or to the end of the label if that lies further right.
RowResponseRect(u, pos) ==
    Rect(u.min,
         Vec(Max(u.min.x + u.width, pos.cursor.x + u.label_width),
             u.min.y + u.label_height))

BackgroundRect(u, row_rect) == Expand2(row_rect, Vec(0, u.item_spacing_y \div 2))

LabelRect(background_rect, label_rect_min) ==
    [background_rect EXCEPT !.min.x = label_rect_min]

\* What one call of draw_row does and returns: response (its rect),
\* closer_response (the position of the closer it belongs to) and label_rect
\* are the returned triple, the other fields are the locals and the drawing.
DrawRow(row, st, icon_is_some, u) ==
    LET f == Flags(st.row_layout, row.is_dir, icon_is_some)
        pos == SlotPositions(u, row.depth, f)
        row_rect == RowResponseRect(u, pos)
        background_rect == BackgroundRect(u, row_rect)
    IN  [flags |-> f,
         closer_pos |-> pos.closer_pos,
         icon_pos |-> pos.icon_pos,
         label_pos |-> pos.label_pos,
         calls |-> Calls(f, icon_is_some),
         row_rect |-> row_rect,
         response |-> background_rect,
         closer_response |-> IF f.draw_closer THEN Some(pos.closer_pos) ELSE None,
         label_rect |-> LabelRect(background_rect, LabelRectMin(f, pos).x)]

----------------------------------------------------------------------------
(* Row::draw_row_dragged *)

\* crate::store(ui, drag_source_id, drag_offset): the value is put under the id.
Store(persisted, value) == Some(value)

\* crate::load(ui, drag_source_id): the value under the id, if there is one.
Load(persisted) == persisted

DragOffset_Recomputed(drag_started, pointer_latest_pos, row_rect_min, persisted) ==
    IF pointer_latest_pos # None
    THEN VSub(row_rect_min, pointer_latest_pos[1])
    ELSE ZERO

\* The local drag_offset: computed when the drag starts, loaded otherwise.
DragOffset(drag_started, pointer_latest_pos, row_rect_min, persisted) ==
    IF drag_started
    THEN IF pointer_latest_pos # None
         THEN VSub(row_rect_min, pointer_latest_pos[1])
         ELSE ZERO
    ELSE IF Load(persisted) # None THEN Load(persisted)[1] ELSE ZERO

\* The persisted value after the frame: stored only when the drag starts.
Persisted(drag_started, offset, persisted) ==
    IF drag_started THEN Store(persisted, offset) ELSE persisted

Delta_FromOrigin(background_rect_min, pointer_pos, offset) ==
    VAdd(pointer_pos, offset)

\* delta = -background_rect.min.to_vec2() + pointer_pos.to_vec2() + drag_offset
Delta(background_rect_min, pointer_pos, offset) ==
    VAdd(VAdd(VNeg(background_rect_min), pointer_pos), offset)

\* translate_layer is called only if pointer_interact_pos is Some.
Translation(background_rect_min, pointer_interact_pos, offset) ==
    IF pointer_interact_pos # None
    THEN Some(Delta(background_rect_min, pointer_interact_pos[1], offset))
    ELSE None

OptPoints == {None} \cup {Some(p) : p \in Points}

----------------------------------------------------------------------------
(* Values of the variables an operation has not touched. *)

IdleDrop ==
    /\ range = Rangef(0, 1)
    /\ cursor_pos = 0
    /\ quarter = None

IdleRow ==
    /\ self = [depth |-> 0, is_dir |-> FALSE, is_open |-> FALSE]
    /\ settings = [row_layout |-> "Compact"]
    /\ add_icon = FALSE
    /\ ui = [min |-> ZERO, width |-> 0, icon_width |-> 0, item_spacing_y |-> 0,
             label_width |-> 0, label_height |-> 0]
    /\ drawn = None

IdleDrag ==
    /\ store = None
    /\ frame = None
    /\ drag_offset = ZERO
    /\ translate = None
    /\ returned = None
    /\ cursor_icon = "Default"
    /\ grab = None

----------------------------------------------------------------------------
(* The drop classification on its own: one call of DropQuarter::new. *)

InitDrop ==
    /\ pc = "start"
    /\ range \in Ranges
    /\ cursor_pos \in (range.min - Margin)..(range.max + Margin)
    /\ quarter = None
    /\ IdleRow
    /\ IdleDrag

New ==
    /\ pc = "start"
    /\ pc' = "DropQuarter::new"
    /\ quarter' = DropQuarterNew(range, cursor_pos)
    /\ UNCHANGED <<range, cursor_pos, rowVars, dragVars>>

NextDrop == New

SpecDrop == InitDrop /\ [][NextDrop]_vars

----------------------------------------------------------------------------
(* The row layout on its own: one call of draw_row. *)

InitRow ==
    /\ pc = "start"
    /\ self \in Rows
    /\ settings \in [row_layout : RowLayout]
    /\ add_icon \in BOOLEAN
    /\ ui \in Uis
    /\ drawn = None
    /\ IdleDrop
    /\ IdleDrag

DrawRowCall ==
    /\ pc = "start"
    /\ pc' = "draw_row"
    /\ drawn' = Some(DrawRow(self, settings, add_icon, ui))
    /\ UNCHANGED <<self, settings, add_icon, ui, dropVars, dragVars>>

NextRow == DrawRowCall

SpecRow == InitRow /\ [][NextRow]_vars

----------------------------------------------------------------------------
(* The frames of one row: in each frame the tree view draws the row in place *)
(* (draw_row) or as the drag overlay (draw_row_dragged).                     *)

\* The Ui of the frames: one Ui whose cursor is off the origin in x and in y.
FrameUi ==
    [min |-> Vec(1, MaxCoord),
     width |-> MaxWidth,
     icon_width |-> MaxIconWidth,
     item_spacing_y |-> 2 * MaxHalfSpacing,
     label_width |-> MaxLabel,
     label_height |-> MaxLabel]

InitFrame ==
    /\ pc = "start"
    /\ self \in [depth : {MaxDepth}, is_dir : BOOLEAN, is_open : {TRUE}]
    /\ settings \in [row_layout : RowLayout]
    /\ add_icon \in BOOLEAN
    /\ ui = FrameUi
    /\ drawn = None
    /\ IdleDrop
    /\ IdleDrag

DrawRowInPlace ==
    /\ pc' = "draw_row"
    /\ drawn' = Some(DrawRow(self, settings, add_icon, ui))
    /\ UNCHANGED <<self, settings, add_icon, ui, dropVars, dragVars>>

DrawRowDragged ==
    \E drag_started \in BOOLEAN, pointer_latest_pos \in OptPoints,
       row_rect_min \in Points, pointer_interact_pos \in OptPoints :
        LET offset == DragOffset(drag_started, pointer_latest_pos, row_rect_min, store)
            row == DrawRow(self, settings, add_icon, ui)
            background_rect == row.response
        IN  /\ pc' = "draw_row_dragged"
            /\ cursor_icon' = "Alias"
            /\ frame' = Some([drag_started |-> drag_started,
                              pointer_latest_pos |-> pointer_latest_pos,
                              row_rect_min |-> row_rect_min,
                              pointer_interact_pos |-> pointer_interact_pos,
                              background_rect_min |-> background_rect.min])
            /\ drag_offset' = offset
            /\ store' = Persisted(drag_started, offset, store)
            /\ drawn' = Some(row)
            /\ translate' = Translation(background_rect.min, pointer_interact_pos, offset)
            /\ returned' = Some(TRUE)
            /\ grab' = IF ~drag_started THEN grab
                       ELSE IF pointer_latest_pos = None THEN Some(ZERO)
                       ELSE Some(Vec(row_rect_min.x - pointer_latest_pos[1].x,
                                     row_rect_min.y - pointer_latest_pos[1].y))
            /\ UNCHANGED <<self, settings, add_icon, ui, dropVars>>

NextFrame == DrawRowInPlace \/ DrawRowDragged

SpecFrame == InitFrame /\ [][NextFrame]_vars

----------------------------------------------------------------------------
(* Properties of DropQuarter::new, checked under SpecDrop. *)

Classified == pc = "DropQuarter::new"
Height == range.max - range.min
Inside == range.min <= cursor_pos /\ cursor_pos < range.max

\* The bands of the classifier as sets of cursor positions.  A position y is
\* below mid = (min + max) / 2 exactly when 2 * y < min + max.
Candidates == (range.min - Margin)..(range.max + Margin)
TopBand == {y \in Candidates : range.min <= y /\ y < range.min + 5}
MiddleTopBand == {y \in Candidates : range.min + 5 <= y /\ y + y < range.min + range.max}
MiddleBottomBand == {y \in Candidates : range.min + range.max <= y + y /\ y < range.max - 5}
BottomBand == {y \in Candidates : range.max - 5 <= y /\ y < range.max}

\* C2: for any range with min < max and any cursor_y with cursor_y < min or
\* cursor_y >= max, DropQuarter::new returns none.
C2_OutsideIsNone ==
    (Classified /\ range.min < range.max /\ ~Inside) => quarter = None

\* C3: for any range with min < max, of any height, and any cursor_y with
\* min <= cursor_y < max, DropQuarter::new returns some band, never none.
C3_InsideIsSome ==
    (Classified /\ range.min < range.max /\ Inside) =>
        quarter \in {Some("Top"), Some("MiddleTop"), Some("MiddleBottom"), Some("Bottom")}

\* A row shorter than twice the hover height whose lower part is classified.
C3_Witness ==
    /\ Classified
    /\ Height < 2 * 5
    /\ Inside
    /\ cursor_pos >= range.min + 5
    /\ quarter = Some("Bottom")

\* C4: for any range with max - min >= 2H the four half-open bands are pairwise
\* disjoint and DropQuarter::new returns exactly the band containing cursor_y
\* (none when no band contains it); for the range [0, 100]: 0 -> Top,
\* 5 -> MiddleTop, 50 -> MiddleBottom, 95 -> Bottom, 100 -> none, and the
\* value just below each boundary belongs to the preceding band.
C4_BandsExact ==
    (Classified /\ Height >= 2 * 5) =>
        /\ TopBand \cap MiddleTopBand = {}
        /\ TopBand \cap MiddleBottomBand = {}
        /\ TopBand \cap BottomBand = {}
        /\ MiddleTopBand \cap MiddleBottomBand = {}
        /\ MiddleTopBand \cap BottomBand = {}
        /\ MiddleBottomBand \cap BottomBand = {}
        /\ quarter = Some("Top") <=> cursor_pos \in TopBand
        /\ quarter = Some("MiddleTop") <=> cursor_pos \in MiddleTopBand
        /\ quarter = Some("MiddleBottom") <=> cursor_pos \in MiddleBottomBand
        /\ quarter = Some("Bottom") <=> cursor_pos \in BottomBand
        /\ quarter = None <=> ~Inside
        /\ range = ExampleRange =>
            /\ cursor_pos \in {0, 4} => quarter = Some("Top")
            /\ cursor_pos \in {5, 49} => quarter = Some("MiddleTop")
            /\ cursor_pos \in {50, 94} => quarter = Some("MiddleBottom")
            /\ cursor_pos \in {95, 99} => quarter = Some("Bottom")
            /\ cursor_pos \in {-1, 100} => quarter = None

\* The first position of MiddleTop in the range [0, 100].
C4_Witness ==
    /\ Classified
    /\ range = ExampleRange
    /\ cursor_pos = 5
    /\ quarter = Some("MiddleTop")

\* C9: for any range with 0 < max - min <= 2H, DropQuarter::new never returns
\* MiddleTop or MiddleBottom: the results are Top, Bottom or none, and a
\* cursor_y in both [min, min+H) and [max-H, max) is classified Top.
C9_ShortRowNoMiddle ==
    (Classified /\ 0 < Height /\ Height <= 2 * 5) =>
        /\ quarter \in {Some("Top"), Some("Bottom"), None}
        /\ (cursor_pos \in TopBand \cap BottomBand) => quarter = Some("Top")

\* A short row with the cursor in both the Top and the Bottom band.
C9_Witness ==
    /\ Classified
    /\ 0 < Height /\ Height <= 2 * 5
    /\ cursor_pos \in TopBand \cap BottomBand
    /\ quarter = Some("Top")

----------------------------------------------------------------------------
(* Properties of draw_row, checked under SpecRow. *)

\* C1: for every layout policy, is_dir and icon presence the four flags of
\* draw_row equal the table: Compact = (is_dir, is_dir, false, false);
\* CompactAlignedLabels = (is_dir, is_dir, !is_dir, !is_dir and icon present);
\* AlignedIcons = (true, is_dir, icon present, icon present);
\* AlignedIconsAndLabels = (true, is_dir, true, icon present); draw_closer
\* equals is_dir under every policy.
C1_FlagTable ==
    drawn # None =>
        LET f == drawn[1].flags
            got == <<f.reserve_closer, f.draw_closer, f.reserve_icon, f.draw_icon>>
            layout == settings.row_layout
            dir == self.is_dir
        IN  /\ f.draw_closer = dir
            /\ (layout = "Compact" /\ dir) => got = <<TRUE, TRUE, FALSE, FALSE>>
            /\ (layout = "Compact" /\ ~dir) => got = <<FALSE, FALSE, FALSE, FALSE>>
            /\ (layout = "CompactAlignedLables" /\ dir) =>
                    got = <<TRUE, TRUE, FALSE, FALSE>>
            /\ (layout = "CompactAlignedLables" /\ ~dir /\ add_icon) =>
                    got = <<FALSE, FALSE, TRUE, TRUE>>
            /\ (layout = "CompactAlignedLables" /\ ~dir /\ ~add_icon) =>
                    got = <<FALSE, FALSE, TRUE, FALSE>>
            /\ (layout = "AlignedIcons" /\ add_icon) => got = <<TRUE, dir, TRUE, TRUE>>
            /\ (layout = "AlignedIcons" /\ ~add_icon) => got = <<TRUE, dir, FALSE, FALSE>>
            /\ (layout = "AlignedIconsAndLabels" /\ add_icon) =>
                    got = <<TRUE, dir, TRUE, TRUE>>
            /\ (layout = "AlignedIconsAndLabels" /\ ~add_icon) =>
                    got = <<TRUE, dir, TRUE, FALSE>>

\* A directory with an icon callback drawn under CompactAlignedLabels: the
\* icon is neither reserved nor drawn.
C1_Witness ==
    /\ drawn # None
    /\ settings.row_layout = "CompactAlignedLables"
    /\ self.is_dir
    /\ add_icon
    /\ ~drawn[1].flags.draw_icon

\* C7: the left edge of the label_rect returned by draw_row is the closer
\* slot's start when a closer is drawn, otherwise the icon slot's start when
\* an icon is drawn, otherwise the label slot's start; this is the left-most
\* of the slots that are drawn (closer_pos <= icon_pos <= label_pos), and the
\* other three edges of label_rect are the background rectangle's.
C7_LabelRectLeft ==
    drawn # None =>
        LET d == drawn[1]
            left == d.label_rect.min.x
            slots == {d.label_pos.x}
                     \cup (IF d.flags.draw_closer THEN {d.closer_pos.x} ELSE {})
                     \cup (IF d.flags.draw_icon THEN {d.icon_pos.x} ELSE {})
        IN  /\ d.flags.draw_closer => left = d.closer_pos.x
            /\ d.closer_pos.x = ui.min.x + self.depth
            /\ (~d.flags.draw_closer /\ d.flags.draw_icon) => left = d.icon_pos.x
            /\ (~d.flags.draw_closer /\ ~d.flags.draw_icon) => left = d.label_pos.x
            /\ d.closer_pos.x <= d.icon_pos.x
            /\ d.icon_pos.x <= d.label_pos.x
            /\ left \in slots
            /\ \A x \in slots : left <= x
            /\ d.label_rect.min.y = d.response.min.y
            /\ d.label_rect.max = d.response.max

\* A directory with an icon under AlignedIcons: closer and icon are both
\* drawn, in different slots, and the label_rect starts at the closer.
C7_Witness ==
    /\ drawn # None
    /\ drawn[1].flags.draw_closer
    /\ drawn[1].flags.draw_icon
    /\ drawn[1].closer_pos.x < drawn[1].icon_pos.x
    /\ drawn[1].label_rect.min.x = drawn[1].closer_pos.x
    /\ self.depth > 0

\* C10: no slot is drawn without being reserved, and the label slot starts at
\* depth + icon_width from the row start for every row under
\* CompactAlignedLabels (exactly one of closer and icon is reserved) and at
\* depth + 2 * icon_width for every row under AlignedIconsAndLabels, whatever
\* is_dir and the icon presence; under AlignedIcons the icon slot starts at
\* depth + icon_width.
C10_Alignment ==
    drawn # None =>
        LET d == drawn[1]
            f == d.flags
            layout == settings.row_layout
        IN  /\ f.draw_closer => f.reserve_closer
            /\ f.draw_icon => f.reserve_icon
            /\ layout = "CompactAlignedLables" =>
                /\ f.reserve_closer # f.reserve_icon
                /\ d.label_pos.x - ui.min.x = self.depth + ui.icon_width
            /\ layout = "AlignedIconsAndLabels" =>
                d.label_pos.x - ui.min.x = self.depth + 2 * ui.icon_width
            /\ layout = "AlignedIcons" =>
                d.icon_pos.x - ui.min.x = self.depth + ui.icon_width

\* A file without an icon under AlignedIconsAndLabels: nothing is drawn in
\* the two slots and the label still starts two icon widths in.
C10_Witness ==
    /\ drawn # None
    /\ settings.row_layout = "AlignedIconsAndLabels"
    /\ ~self.is_dir
    /\ ~add_icon
    /\ ~drawn[1].flags.draw_closer
    /\ ~drawn[1].flags.draw_icon
    /\ drawn[1].label_pos.x = ui.min.x + self.depth + 2 * ui.icon_width

----------------------------------------------------------------------------
(* Properties of the frames, checked under SpecFrame. *)

Dragged == pc = "draw_row_dragged"

\* The number of times the callback or painter e is called in calls.
Count(calls, e) == Cardinality({i \in 1..Len(calls) : calls[i] = e})

\* C8: in every call of draw_row, and so in every call of draw_row_dragged,
\* the label callback is invoked exactly once; the icon callback at most once,
\* and exactly once iff the draw_icon flag is true; the label callback is
\* invoked before the closer is drawn and before the icon callback.
C8_Callbacks ==
    drawn # None =>
        LET d == drawn[1]
            calls == d.calls
        IN  /\ Count(calls, "add_label") = 1
            /\ Count(calls, "add_icon") = (IF d.flags.draw_icon THEN 1 ELSE 0)
            /\ Count(calls, "paint_default_icon") = (IF d.flags.draw_closer THEN 1 ELSE 0)
            /\ \A i, j \in 1..Len(calls) :
                (calls[i] = "add_label" /\ calls[j] # "add_label") => i < j

\* A dragged directory with an icon under AlignedIcons: all three are drawn.
C8_Witness ==
    /\ Dragged
    /\ drawn # None
    /\ drawn[1].flags.draw_closer
    /\ drawn[1].flags.draw_icon
    /\ drawn[1].calls = <<"add_label", "paint_default_icon", "add_icon">>

\* The offset the frame gives when a drag starts in it.
StartOffset(f) ==
    IF f.pointer_latest_pos = None
    THEN Vec(0, 0)
    ELSE Vec(f.row_rect_min.x - f.pointer_latest_pos[1].x,
             f.row_rect_min.y - f.pointer_latest_pos[1].y)

\* C5 as stated: the persisted offset is written only on a frame with a drag
\* start, and its value is then the row top-left minus the pointer position of
\* that frame; on every other frame the offset used is the stored value
\* (the zero vector if nothing is stored) and the store is unchanged.
C5_AsStated ==
    [][/\ pc' = "draw_row" => store' = store
       /\ pc' = "draw_row_dragged" =>
            LET f == frame'[1]
            IN  IF f.drag_started
                THEN /\ f.pointer_latest_pos # None
                     /\ store' = Some(StartOffset(f))
                     /\ drag_offset' = StartOffset(f)
                ELSE /\ store' = store
                     /\ drag_offset' = (IF store = None THEN Vec(0, 0) ELSE store[1])
      ]_vars

\* C5, amended: the persisted offset is written only on a frame with a drag
\* start, and its value is then the row top-left minus the pointer position of
\* that frame, or the zero vector if that frame has no pointer position; on
\* every other frame the offset used is the stored value (the zero vector if
\* nothing is stored), never one recomputed from the frame, and the store is
\* unchanged.
C5_OffsetPersisted ==
    [][/\ pc' = "draw_row" => store' = store
       /\ pc' = "draw_row_dragged" =>
            LET f == frame'[1]
            IN  IF f.drag_started
                THEN /\ store' = Some(StartOffset(f))
                     /\ drag_offset' = StartOffset(f)
                ELSE /\ store' = store
                     /\ drag_offset' = (IF store = None THEN Vec(0, 0) ELSE store[1])
      ]_vars

\* A later frame of a drag: no drag start, the stored offset is used and it
\* differs from the one this frame's pointer and row position would give.
C5_Witness ==
    /\ Dragged
    /\ ~frame[1].drag_started
    /\ store # None
    /\ drag_offset = store[1]
    /\ drag_offset # Vec(0, 0)
    /\ frame[1].pointer_latest_pos # None
    /\ drag_offset # StartOffset(frame[1])

\* C6: in every frame in which the pointer position is available the overlay
\* layer is translated by pointer_position + drag_offset - overlay_origin, so
\* the overlay's top-left minus the pointer position is the offset captured at
\* the drag start, also in the frame of the drag start; in a frame without
\* pointer position nothing is translated; draw_row_dragged returns true.
C6_OverlayFollowsPointer ==
    frame # None =>
        LET f == frame[1]
            origin == f.background_rect_min
        IN  /\ returned = Some(TRUE)
            /\ f.pointer_interact_pos = None => translate = None
            /\ f.pointer_interact_pos # None =>
                LET p == f.pointer_interact_pos[1]
                    moved == Vec(p.x + drag_offset.x - origin.x,
                                 p.y + drag_offset.y - origin.y)
                    top_left == Vec(origin.x + moved.x, origin.y + moved.y)
                IN  /\ translate = Some(moved)
                    /\ grab # None =>
                        Vec(top_left.x - p.x, top_left.y - p.y) = grab[1]

\* A later frame of a drag with the pointer moved: the overlay is translated
\* and keeps the offset of the drag start.
C6_Witness ==
    /\ Dragged
    /\ ~frame[1].drag_started
    /\ grab # None
    /\ grab[1] # Vec(0, 0)
    /\ frame[1].pointer_interact_pos # None
    /\ translate # None
    /\ frame[1].background_rect_min # Vec(0, 0)

====
